---- MODULE Spec2Model ----
(***************************************************************************)
(* Model of the portfolio service's Kafka consumer                         *)
(* (src/backend/app/api/routes/new_routes/porfolio_service.py,             *)
(* consume_messages): one action consumes one message of the               *)
(* transaction_events topic and runs the whole loop body on the holdings   *)
(* table, commit or rollback included.                                     *)
(*                                                                         *)
(* Python floats are modelled as binary floating point numbers with a      *)
(* mantissa of MantBits bits (round to nearest, ties to even, unbounded    *)
(* exponent): every arithmetic operator of the code is the exact rational  *)
(* operation followed by that rounding.  A number is a record              *)
(* [num, den] in lowest terms with den > 0.                                *)
(***************************************************************************)
EXTENDS Integers, Sequences, FiniteSets, TLC

VARIABLES
    holdings,     \* the rows of table "holdings" (DBHolding, lines 20-28), without id
    now,          \* datetime.now(): the number of messages consumed so far
    last,         \* Optional: the message the loop body ran on last (msg, line 96)
    outcome,      \* the line the loop body printed for it (lines 129-168)
    dead_letter,  \* the events handed to a dead-letter sink: the code has none
    ledger,       \* the idempotency markers (user_id, transaction_id): the code has none
    service,      \* "starting", "ready" once startup_event has returned, or "failed"
    consumer,     \* the task consume_messages: "created", "running" inside
                  \* "async for" (line 96), "stopped" after lines 173-178
    acked,        \* the group's committed offset covers the message in "last"
    attempts,     \* history: how many times in a row the loop body ran on "last"
    run,          \* history: the buy events consumed so far (see NextRun)
    basis,        \* history: the unit prices bought since the Position of the
                  \* one (user, symbol) traded so far was created (see NextBasis)
    transactions, \* the rows of table "transactions" (DBTransaction) of the producer
    topic,        \* the records of each partition of topic transaction_events
    position,     \* per partition: the number of records handed to a consumer
    inflight,     \* per consumer instance: the message and row its loop body holds
    published,    \* history: the transactions published, in publication order
    done,         \* history: the transaction ids whose loop body has ended
    requests      \* the POST /transactions requests received, each with the
                  \* process handling it, its place in the handler and its answer

streamVars == <<transactions, topic, position, inflight, published, done>>

vars == <<holdings, now, last, outcome, dead_letter, ledger, service, consumer, acked,
          attempts, run, basis, streamVars, requests>>

\* ---------------------------------------------------------------- bounds
\* number of messages the consumer takes from the topic in one behaviour
MaxEvents == 3
\* number of transactions the producer stores in one behaviour
MaxTransactions == 3
\* mantissa width of the modelled float
MantBits == 5
\* number of POST /transactions requests received in one behaviour
MaxRequests == 2

\* ------------------------------------------------------- Optional[...]
None == <<>>
Some(x) == <<x>>
IsNone(o) == o = <<>>
Val(o) == o[1]

\* ------------------------------------------------------ exact rationals
Abs(i) == IF i < 0 THEN -i ELSE i

RECURSIVE GCD(_, _)
GCD(a, b) == IF b = 0 THEN a ELSE GCD(b, a % b)

Rat(n, d) ==
    LET s == IF d < 0 THEN -1 ELSE 1
        g == GCD(Abs(n), Abs(d))
    IN  [num |-> (s * n) \div g, den |-> (s * d) \div g]

Int2Rat(i) == [num |-> i, den |-> 1]
Zero == Int2Rat(0)

RAdd(x, y) == Rat(x.num * y.den + y.num * x.den, x.den * y.den)
RNeg(x) == [num |-> -x.num, den |-> x.den]
RSub(x, y) == RAdd(x, RNeg(y))
RMul(x, y) == Rat(x.num * y.num, x.den * y.den)
RDiv(x, y) == Rat(x.num * y.den, x.den * y.num)
RLt(x, y) == x.num * y.den < y.num * x.den
RLe(x, y) == x.num * y.den <= y.num * x.den

\* ------------------------------------------------------- float rounding
RECURSIVE Pow2(_)
Pow2(k) == IF k = 0 THEN 1 ELSE 2 * Pow2(k - 1)

\* nearest integer to n/d (n, d > 0), ties to the even integer
RoundHalfEven(n, d) ==
    LET f == n \div d
        r == n % d
    IN  IF 2 * r > d \/ (2 * r = d /\ f % 2 = 1) THEN f + 1 ELSE f

\* n/d > 0 rounded to MantBits significant bits
RECURSIVE RoundPos(_, _)
RoundPos(n, d) ==
    IF n >= Pow2(MantBits) * d
    THEN LET r == RoundPos(n, 2 * d) IN Rat(2 * r.num, r.den)
    ELSE IF n < Pow2(MantBits - 1) * d
         THEN LET r == RoundPos(2 * n, d) IN Rat(r.num, 2 * r.den)
         ELSE Int2Rat(RoundHalfEven(n, d))

Fl(x) ==
    IF x.num = 0 THEN Zero
    ELSE IF x.num > 0 THEN RoundPos(x.num, x.den)
    ELSE RNeg(RoundPos(-x.num, x.den))

\* Python's float operators
FAdd(x, y) == Fl(RAdd(x, y))
FSub(x, y) == Fl(RSub(x, y))
FMul(x, y) == Fl(RMul(x, y))
FDiv(x, y) == Fl(RDiv(x, y))
\* truth value of an Optional[float]: None and 0.0 are false
Truthy(o) == ~IsNone(o) /\ Val(o).num # 0

\* ------------------------------------------------------------- symbols
\* a symbol is a string, modelled as a sequence of characters
UpperChar(c) == CASE c = "a" -> "A" [] c = "b" -> "B" [] OTHER -> c
LowerChar(c) == CASE c = "A" -> "a" [] c = "B" -> "b" [] OTHER -> c
\* str.upper()
RECURSIVE Upper(_)
Upper(s) == IF s = <<>> THEN <<>> ELSE <<UpperChar(Head(s))>> \o Upper(Tail(s))
RECURSIVE Lower(_)
Lower(s) == IF s = <<>> THEN <<>> ELSE <<LowerChar(Head(s))>> \o Lower(Tail(s))

\* SQL LIKE of PostgreSQL (DATABASE_URL, line 15): "_" matches any one
\* character, "%" any run of characters, and a backslash, the default
\* escape character, makes the character after it stand for itself (a
\* pattern that ends in a backslash is rejected; no modelled symbol does)
RECURSIVE Like(_, _)
Like(s, p) ==
    IF p = <<>> THEN s = <<>>
    ELSE IF Head(p) = "%"
         THEN Like(s, Tail(p)) \/ (s # <<>> /\ Like(Tail(s), p))
         ELSE IF Head(p) = "\\" /\ Tail(p) # <<>>
              THEN /\ s # <<>>
                   /\ Head(Tail(p)) = Head(s)
                   /\ Like(Tail(s), Tail(Tail(p)))
              ELSE /\ s # <<>>
                   /\ (Head(p) = "_" \/ Head(p) = Head(s))
                   /\ Like(Tail(s), Tail(p))

\* column.ilike(pattern): LIKE on the lower-cased operands; a NULL pattern
\* matches no row
ILike(s, pattern) == ~IsNone(pattern) /\ Like(Lower(s), Lower(Val(pattern)))

\* ------------------------------------------------------ the input sets
Users == {"u1", "u2"}
Symbols == {<<"a", "b">>, <<"A", "B">>, <<"A", "_">>, <<"\\", "B">>}
\* <<quantity, amount>> of the well-formed trades: 1 unit for 0, 11 units for 3
Fills == {<<Int2Rat(1), Int2Rat(0)>>, <<Int2Rat(11), Int2Rat(3)>>}
\* two buys whose unit prices round to the same float: 3 units for 14 and
\* 4 units for 19
PricedFills == {<<Int2Rat(3), Int2Rat(14)>>, <<Int2Rat(4), Int2Rat(19)>>}

Payload(tid, u, ty, sym, q, a) ==
    [transaction_id |-> tid, user_id |-> u, type |-> ty,
     symbol |-> sym, quantity |-> q, amount |-> a]

\* buy and sell events with every required field, quantity > 0, amount >= 0:
\* the first user trades every symbol with every fill, the other user one
\* unit of "AB"
WellFormedTrades(tid) ==
    {Payload(tid, "u1", ty, Some(s), Some(f[1]), Some(f[2])) :
        ty \in {"buy", "sell"}, s \in Symbols, f \in Fills}
    \cup {Payload(tid, u, ty, Some(<<"A", "B">>), Some(Int2Rat(1)), Some(Int2Rat(0))) :
        u \in Users, ty \in {"buy", "sell"}}
    \cup {Payload(tid, "u1", "buy", Some(<<"A", "B">>), Some(f[1]), Some(f[2])) :
        f \in PricedFills}

\* buy and sell events that miss the symbol, the quantity or the amount,
\* or carry a zero or negative quantity or a negative amount
MalformedTrades(tid) ==
    LET s == Some(<<"A", "B">>)
        one == Some(Int2Rat(1))
        three == Some(Int2Rat(3))
        shapes == {<<None, one, three>>,
                   <<s, None, three>>,
                   <<s, Some(Zero), three>>,
                   <<s, Some(Int2Rat(-1)), three>>,
                   <<s, one, Some(Int2Rat(-3))>>,
                   <<s, one, None>>}
    IN  {Payload(tid, "u1", ty, x[1], x[2], x[3]) :
            ty \in {"buy", "sell"}, x \in shapes}

\* deposits, withdrawals and a type the consumer does not know, without
\* symbol and quantity; deposits and withdrawals that carry them all the same
CashEvents(tid) ==
    {Payload(tid, "u1", ty, None, None, Some(Int2Rat(3))) :
        ty \in {"deposit", "withdrawal", "dividend"}}
    \cup {Payload(tid, u, ty, Some(<<"A", "B">>), Some(Int2Rat(1)), Some(Int2Rat(3))) :
        u \in Users, ty \in {"deposit", "withdrawal"}}

Envelope(et, data) == [kind |-> "json", event_type |-> et, transaction_data |-> data]

\* the messages a producer can put on the topic with transaction id tid
NewMessages(tid) ==
    {Envelope("transaction_completed", Some(d)) :
        d \in WellFormedTrades(tid) \cup MalformedTrades(tid) \cup CashEvents(tid)}
    \cup {Envelope("transaction_completed", None),
          Envelope("transaction_failed", None),
          [kind |-> "garbage", event_type |-> "", transaction_data |-> None],
          [kind |-> "binary", event_type |-> "", transaction_data |-> None]}

\* ---------------------------------------------------------- the topic
\* the partitions of topic transaction_events
Partitions == {0, 1}
\* the consumer instances of the group, as many as partitions
Workers == Partitions

\* the hash of a record key, a number per user id
Hash(key) == CASE key = "u1" -> 1 [] key = "u2" -> 2

\* the partitions the producer's partitioner can choose for a record: the
\* one the key hashes to, any for a record without key
PartitionsFor(key) ==
    IF IsNone(key) THEN Partitions ELSE {Hash(Val(key)) % Cardinality(Partitions)}

\* send_and_wait without a key
KeyOfNothing(tx) == None

\* key=db_transaction.user_id.encode('utf-8')
KeyOf(tx) == Some(tx.user_id)

\* with group_id unset every instance is assigned every partition
AssignedWithoutGroup(w) == Partitions

\* group_id=KAFKA_CONSUMER_GROUP_ID: each partition is assigned to one
\* instance of the group
Assigned(w) == {w}

\* a consumer that hands out the newest record of the partition
NewestRecord(log, pos) == log[Len(log)]

\* "async for msg in consumer": the record after the position
NextRecord(log, pos) == log[pos + 1]

\* the transactions a client can post with transaction id tid: one unit of
\* "AB" bought or sold by either user
Requests(tid) ==
    {Payload(tid, u, ty, Some(<<"A", "B">>), Some(Int2Rat(1)), Some(Int2Rat(0))) :
        u \in Users, ty \in {"buy", "sell"}}

\* ------------------------------------------------- the holdings table
Row(u, s, q, avg, t) ==
    [user_id |-> u, symbol |-> s, quantity |-> q, average_cost |-> avg,
     last_updated |-> t]

\* Transaction.model_validate_json: amount is the one required field the
\* modelled payloads can miss
Validates(d) == ~IsNone(d.amount)

\* the lookup without its user_id condition
MatchingAnyUser(rows, d) == {r \in rows : ILike(r.symbol, d.symbol)}

\* select(DBHolding).where(user_id == ..., symbol.ilike(...))
Matching(rows, d) ==
    {r \in rows : r.user_id = d.user_id /\ ILike(r.symbol, d.symbol)}

SymbolTruthy(o) == ~IsNone(o) /\ Val(o) # <<>>

Result(rows, oc) == [holdings |-> rows, outcome |-> oc]

\* the buy branch
ReduceBuy(rows, d, db_holding, t) ==
    LET q == Val(d.quantity)
        a == Val(d.amount)
    IN  IF IsNone(db_holding)
        THEN Result(rows \cup {Row(d.user_id, Upper(Val(d.symbol)), q, FDiv(a, q), t)},
                    "new_holding")
        ELSE LET h == Val(db_holding)
                 total_qty == FAdd(h.quantity, q)
                 avg == IF RLt(Zero, total_qty)
                        THEN FDiv(FAdd(FMul(h.quantity, h.average_cost),
                                       FMul(q, FDiv(a, q))),
                                  total_qty)
                        ELSE h.average_cost
             IN  Result((rows \ {h}) \cup {Row(h.user_id, h.symbol, total_qty, avg, t)},
                        "holding_bought")

\* the sell branch
ReduceSell(rows, d, db_holding, t) ==
    LET q == Val(d.quantity)
    IN  IF IsNone(db_holding)
        THEN Result(rows, "warn_no_holding")
        ELSE LET h == Val(db_holding)
                 left == FSub(h.quantity, q)
             IN  IF RLe(q, h.quantity)
                 THEN IF left = Zero
                      THEN Result(rows \ {h}, "holding_deleted")
                      ELSE Result((rows \ {h}) \cup
                                  {Row(h.user_id, h.symbol, left, h.average_cost, t)},
                                  "holding_sold")
                 ELSE Result(rows, "warn_oversell")

\* Reduce with the buy branch taken by every type but "sell"
ReduceUnlessSell(rows, d, db_holding, t) ==
    IF d.type # "sell" /\ SymbolTruthy(d.symbol) /\ Truthy(d.quantity)
    THEN ReduceBuy(rows, d, db_holding, t)
    ELSE IF d.type = "sell" /\ SymbolTruthy(d.symbol) /\ Truthy(d.quantity)
         THEN ReduceSell(rows, d, db_holding, t)
         ELSE Result(rows, "no_branch")

\* the branches on transaction.type, then db.commit()
Reduce(rows, d, db_holding, t) ==
    IF d.type = "buy" /\ SymbolTruthy(d.symbol) /\ Truthy(d.quantity)
    THEN ReduceBuy(rows, d, db_holding, t)
    ELSE IF d.type = "sell" /\ SymbolTruthy(d.symbol) /\ Truthy(d.quantity)
         THEN ReduceSell(rows, d, db_holding, t)
         ELSE Result(rows, "no_branch")

\* msg.value.decode('utf-8') (line 99) returns a string
Decodes(msg) == msg.kind # "binary"

\* the try block with a store error that keeps what the session had changed
HandleWithoutRollback(rows, msg, t) ==
    IF msg.kind # "json"
    THEN {Result(rows, "json_error")}
    ELSE IF msg.event_type = "transaction_completed" /\ ~IsNone(msg.transaction_data)
         THEN LET d == Val(msg.transaction_data)
                  found == Matching(rows, d)
                  reduced == IF found = {}
                             THEN {Reduce(rows, d, None, t)}
                             ELSE {Reduce(rows, d, Some(r), t) : r \in found}
              IN  IF ~Validates(d)
                  THEN {Result(rows, "error_rollback")}
                  ELSE {Result(res.holdings, "store_error") : res \in reduced}
                       \cup reduced
         ELSE {Result(rows, "unknown_event")}

\* the try block of the loop body for one message (lines 102-171): every
\* result it can leave behind.  first() returns any one of the matching
\* rows; db.exec (line 116) and db.commit (line 159) raise when the store
\* is unavailable, which "except Exception" answers with db.rollback().
Handle(rows, msg, t) ==
    IF msg.kind # "json"
    THEN {Result(rows, "json_error")}
    ELSE IF msg.event_type = "transaction_completed" /\ ~IsNone(msg.transaction_data)
         THEN LET d == Val(msg.transaction_data)
                  found == Matching(rows, d)
              IN  IF ~Validates(d)
                  THEN {Result(rows, "error_rollback")}
                  ELSE {Result(rows, "store_error")} \cup
                       (IF found = {}
                        THEN {Reduce(rows, d, None, t)}
                        ELSE {Reduce(rows, d, Some(r), t) : r \in found})
         ELSE {Result(rows, "unknown_event")}

\* ------------------------------------------------- history of the run
\* The topic so far, as far as it is a sequence of distinct well-formed buy
\* events of one (user, symbol) consumed on an empty table with the store
\* available: the exact sums of their quantities and amounts.
DeadRun == [ok |-> FALSE, n |-> 0, user_id |-> "", symbol |-> <<>>,
            quantity |-> Zero, amount |-> Zero]
FreshRun == [ok |-> TRUE, n |-> 0, user_id |-> "", symbol |-> <<>>,
             quantity |-> Zero, amount |-> Zero]

IsTransaction(msg) ==
    /\ msg.kind = "json"
    /\ msg.event_type = "transaction_completed"
    /\ ~IsNone(msg.transaction_data)

\* a buy or sell event with all its fields, quantity > 0 and amount >= 0
IsWellFormedTrade(msg, ty) ==
    /\ IsTransaction(msg)
    /\ LET d == Val(msg.transaction_data)
       IN  /\ d.type = ty
           /\ SymbolTruthy(d.symbol)
           /\ ~IsNone(d.quantity) /\ RLt(Zero, Val(d.quantity))
           /\ ~IsNone(d.amount) /\ RLe(Zero, Val(d.amount))

NextRun(r, msg, redelivered) ==
    IF r.ok /\ ~redelivered /\ IsWellFormedTrade(msg, "buy")
    THEN LET d == Val(msg.transaction_data)
         IN  IF r.n = 0 \/ (r.user_id = d.user_id /\ r.symbol = Upper(Val(d.symbol)))
             THEN [ok |-> TRUE, n |-> r.n + 1, user_id |-> d.user_id,
                   symbol |-> Upper(Val(d.symbol)),
                   quantity |-> RAdd(r.quantity, Val(d.quantity)),
                   amount |-> RAdd(r.amount, Val(d.amount))]
             ELSE DeadRun
    ELSE DeadRun

\* The topic so far, as far as it is a sequence of well-formed buy and sell
\* events of one (user, symbol): whether that Position is held, and the
\* smallest and the largest unit price (transaction.amount /
\* transaction.quantity, lines 121 and 136) of the buys since it was created
\* (a further row created while one is held leaves the first creation in
\* force).
NoBasis == [ok |-> FALSE, held |-> FALSE, user_id |-> "", symbol |-> <<>>,
            lo |-> Zero, hi |-> Zero]
FreshBasis == [ok |-> TRUE, held |-> FALSE, user_id |-> "", symbol |-> <<>>,
               lo |-> Zero, hi |-> Zero]

NextBasis(b, msg, oc) ==
    IF b.ok /\ (IsWellFormedTrade(msg, "buy") \/ IsWellFormedTrade(msg, "sell"))
    THEN LET d == Val(msg.transaction_data)
             s == Upper(Val(d.symbol))
             price == FDiv(Val(d.amount), Val(d.quantity))
             same == [b EXCEPT !.user_id = d.user_id, !.symbol = s]
         IN  IF b.user_id \in {"", d.user_id} /\ b.symbol \in {<<>>, s}
             THEN CASE oc = "new_holding" /\ ~b.held ->
                         [same EXCEPT !.held = TRUE, !.lo = price, !.hi = price]
                    [] oc \in {"new_holding", "holding_bought"} ->
                         [same EXCEPT !.lo = IF RLt(price, b.lo) THEN price ELSE b.lo,
                                      !.hi = IF RLt(b.hi, price) THEN price ELSE b.hi]
                    [] oc = "holding_deleted" -> [same EXCEPT !.held = FALSE]
                    [] OTHER -> same
             ELSE NoBasis
    ELSE NoBasis

\* --------------------------------------------------------- the actions
\* the state with an empty store and an empty topic, the service and its
\* consumer task being as far as svc and cons say
Boot(svc, cons) ==
    /\ holdings = {}
    /\ now = 0
    /\ last = None
    /\ outcome = "started"
    /\ dead_letter = {}
    /\ ledger = {}
    /\ service = svc
    /\ consumer = cons
    /\ acked = FALSE
    /\ attempts = 0
    /\ run = FreshRun
    /\ basis = FreshBasis
    /\ transactions = {}
    /\ topic = [p \in Partitions |-> <<>>]
    /\ position = [p \in Partitions |-> 0]
    /\ inflight = [w \in Workers |-> None]
    /\ published = <<>>
    /\ done = {}
    /\ requests = <<>>

\* the process has been started: startup_event has not run yet
Init == Boot("starting", "created")

\* startup_event: create_db_and_tables(), which raises when the store is
\* unavailable and so fails the startup, then create_task(consume_messages())
\* and return: the service is ready whatever becomes of the task
StartupEvent ==
    /\ service = "starting"
    /\ service' \in {"ready", "failed"}
    /\ UNCHANGED <<holdings, now, last, outcome, dead_letter, ledger, requests, basis, consumer, acked,
                   attempts, run, streamVars>>

\* the task up to "async for" (lines 85-95): consumer.start() connects, or
\* raises; the outer "except Exception" (line 173) prints the error, and the
\* task ends, with the service left as it is
ConsumerStart ==
    /\ service = "ready"
    /\ consumer = "created"
    /\ \/ consumer' = "running" /\ outcome' = "consumer_started"
       \/ consumer' = "stopped" /\ outcome' = "connect_error"
    /\ UNCHANGED <<holdings, now, last, dead_letter, ledger, requests, basis, service, acked,
                   attempts, run, streamVars>>

\* one turn of "async for msg in consumer": the loop body on msg at time
\* now + 1.  The consumer's position is past msg as soon as the iterator
\* hands it out, and nothing in the body commits or rewinds it.  An error
\* of line 97-101, outside the inner try, leaves the loop through the
\* outer "except Exception" (line 173) and "finally" (lines 175-178), where
\* consumer.stop() commits the position.  The code has no dead-letter sink
\* and no idempotency ledger, so none is written.
Consume(msg, redelivered) ==
    /\ consumer = "running"
    /\ now < MaxEvents
    /\ IF Decodes(msg)
       THEN /\ \E res \in Handle(holdings, msg, now + 1) :
                  /\ holdings' = res.holdings
                  /\ outcome' = res.outcome
            /\ acked' = FALSE
            /\ UNCHANGED consumer
       ELSE /\ outcome' = "consumer_error"
            /\ consumer' = "stopped"
            /\ acked' = TRUE
            /\ UNCHANGED holdings
    /\ now' = now + 1
    /\ last' = Some(msg)
    /\ attempts' = IF redelivered THEN attempts + 1 ELSE 1
    /\ run' = IF outcome' = "store_error" THEN DeadRun ELSE NextRun(run, msg, redelivered)
    /\ basis' = NextBasis(basis, msg, outcome')
    /\ UNCHANGED <<dead_letter, ledger, requests, service, streamVars>>

\* the topic delivers a message the consumer has not seen
ConsumeNew == \E msg \in NewMessages(now + 1) : Consume(msg, FALSE)

\* the topic delivers the previous message again (at-least-once delivery:
\* the process restarted before the group's offset covered the message)
ConsumeRedelivered == ~IsNone(last) /\ ~acked /\ Consume(Val(last), TRUE)

\* the consumer's background commit (enable_auto_commit is left at its
\* default in lines 85-90): while the loop waits for the next message the
\* position, which is past every message handed out, becomes the group's
\* committed offset, whatever the body did with the message
AutoCommit ==
    /\ consumer = "running"
    /\ ~IsNone(last)
    /\ ~acked
    /\ acked' = TRUE
    /\ UNCHANGED <<holdings, now, last, outcome, dead_letter, ledger, requests, basis, service, consumer,
                   attempts, run, streamVars>>

Next == StartupEvent \/ ConsumerStart \/ ConsumeNew \/ ConsumeRedelivered \/ AutoCommit

Spec == Init /\ [][Next]_vars

\* --------------------------------- the producer and a group of consumers
\* POST /transactions (create_transaction): a known transaction_id is
\* answered 400; otherwise the transaction is stored and committed, then the
\* event is sent keyed by the user id; a failed send is printed.  This is
\* the handler run from line 96 to line 123 with no other request in
\* between; Select, Commit and Send below are its steps one by one.
CreateTransaction(tx) ==
    /\ UNCHANGED <<holdings, now, last, outcome, dead_letter, ledger, requests, basis, service, consumer,
                   acked, attempts, run, position, inflight, done>>
    /\ IF \E x \in transactions : x.transaction_id = tx.transaction_id
       THEN UNCHANGED <<transactions, topic, published>>
       ELSE /\ transactions' = transactions \cup {tx}
            /\ \/ /\ \E p \in PartitionsFor(KeyOf(tx)) :
                        topic' = [topic EXCEPT ![p] =
                                    Append(@, Envelope("transaction_completed", Some(tx)))]
                  /\ published' = Append(published, tx)
               \/ UNCHANGED <<topic, published>>

\* db.exec(statement).first(): None or any one of the matching rows
Lookup(rows, d) ==
    IF Matching(rows, d) = {} THEN {None} ELSE {Some(r) : r \in Matching(rows, d)}

\* instance w takes the next record of a partition assigned to it and runs
\* the loop body up to the lookup (lines 96-116)
Load(w) ==
    /\ IsNone(inflight[w])
    /\ \E p \in Assigned(w) :
          /\ position[p] < Len(topic[p])
          /\ LET msg == NextRecord(topic[p], position[p])
             IN  \E h \in Lookup(holdings, Val(msg.transaction_data)) :
                    inflight' = [inflight EXCEPT ![w] =
                                    Some([msg |-> msg, partition |-> p, db_holding |-> h])]
          /\ position' = [position EXCEPT ![p] = @ + 1]
    /\ UNCHANGED <<holdings, now, last, outcome, dead_letter, ledger, requests, basis, service, consumer,
                   acked, attempts, run, transactions, topic, published, done>>

\* instance w runs the rest of the loop body (lines 118-171) on the row it
\* looked up: the branches and db.commit(), or a store error and rollback
Write(w) ==
    /\ ~IsNone(inflight[w])
    /\ LET msg == Val(inflight[w]).msg
           d == Val(msg.transaction_data)
       IN  /\ \E res \in {Reduce(holdings, d, Val(inflight[w]).db_holding, now + 1),
                           Result(holdings, "store_error")} :
                 /\ holdings' = res.holdings
                 /\ outcome' = res.outcome
           /\ last' = Some(msg)
           /\ done' = done \cup {d.transaction_id}
    /\ now' = now + 1
    /\ inflight' = [inflight EXCEPT ![w] = None]
    /\ UNCHANGED <<dead_letter, ledger, requests, basis, service, consumer, acked, attempts, run,
                   transactions, topic, position, published>>

\* a restart after a loop body that awaits, so that the background commit
\* covers the record while the body holds it
RestartAcknowledged(w) ==
    /\ ~IsNone(inflight[w])
    /\ inflight' = [inflight EXCEPT ![w] = None]
    /\ outcome' = "consumer_started"
    /\ UNCHANGED <<holdings, now, last, dead_letter, ledger, requests, basis, service, consumer,
                   acked, attempts, run, transactions, topic, position, published, done>>

\* the process of instance w ends inside the loop body and is started
\* again (startup_event): the open session is lost uncommitted, and as the
\* background commit runs only while the loop waits for a record (the body
\* has no await), the record's offset is not committed and the new consumer
\* resumes the partition at that record
Restart(w) ==
    /\ ~IsNone(inflight[w])
    /\ position' = [position EXCEPT ![Val(inflight[w]).partition] = @ - 1]
    /\ inflight' = [inflight EXCEPT ![w] = None]
    /\ outcome' = "consumer_started"
    /\ UNCHANGED <<holdings, now, last, dead_letter, ledger, requests, basis, service, consumer,
                   acked, attempts, run, transactions, topic, published, done>>

\* a client posts a transaction with a stored id or with the next free one
PostTransaction ==
    \E tid \in 1..MaxTransactions :
        /\ tid <= Cardinality(transactions) + 1
        /\ \E tx \in Requests(tid) : CreateTransaction(tx)

NextStream ==
    \/ PostTransaction
    \/ \E w \in Workers : Load(w)
    \/ \E w \in Workers : Write(w)
    \/ \E w \in Workers : Restart(w)

\* the services are up: the producer, and the consumer instances in their loops
InitStream == Boot("ready", "running")

SpecStream == InitStream /\ [][NextStream]_vars

\* ------------------------------------- the producer, request by request
\* the processes that serve POST /transactions on the one transaction
\* database (engine, line 16) and the one topic
Servers == {1, 2}

Request(s, tx, pc, status) == [server |-> s, tx |-> tx, pc |-> pc, status |-> status]

\* the event loop of process s is inside the handler's synchronous store
\* calls (lines 96-105, which hold no await)
Busy(s) == \E i \in 1..Len(requests) : requests[i].server = s /\ requests[i].pc = "selected"

Stored(tid) == \E x \in transactions : x.transaction_id = tid

\* create_transaction, lines 96-100: the select by transaction_id, answered
\* 400 when it finds a row
Select(s, tx) ==
    /\ Len(requests) < MaxRequests
    /\ ~Busy(s)
    /\ requests' = Append(requests,
                          IF Stored(tx.transaction_id)
                          THEN Request(s, tx, "returned", 400)
                          ELSE Request(s, tx, "selected", 0))
    /\ UNCHANGED <<holdings, now, last, outcome, dead_letter, ledger, basis, service,
                   consumer, acked, attempts, run, streamVars>>

\* the commit that stores nothing
CommitWithoutStore(i) ==
    /\ requests[i].pc = "selected"
    /\ requests' = [requests EXCEPT ![i].pc = "stored"]
    /\ UNCHANGED <<holdings, now, last, outcome, dead_letter, ledger, basis, service,
                   consumer, acked, attempts, run, streamVars>>

\* create_transaction, lines 102-105: db.add and db.commit. The primary key
\* transaction_id (line 22) refuses a second row: commit raises
\* IntegrityError, which the handler does not catch, and the request is
\* answered 500
Commit(i) ==
    /\ requests[i].pc = "selected"
    /\ IF Stored(requests[i].tx.transaction_id)
       THEN /\ requests' = [requests EXCEPT ![i].pc = "returned", ![i].status = 500]
            /\ UNCHANGED transactions
       ELSE /\ requests' = [requests EXCEPT ![i].pc = "stored"]
            /\ transactions' = transactions \cup {requests[i].tx}
    /\ UNCHANGED <<holdings, now, last, outcome, dead_letter, ledger, basis, service,
                   consumer, acked, attempts, run, topic, position, inflight, published, done>>

\* create_transaction, lines 108-123: send_and_wait keyed by the user id,
\* its failure printed, and the stored row returned (200) either way
Send(i) ==
    /\ requests[i].pc = "stored"
    /\ ~Busy(requests[i].server)
    /\ requests' = [requests EXCEPT ![i].pc = "returned", ![i].status = 200]
    /\ \/ /\ \E p \in PartitionsFor(KeyOf(requests[i].tx)) :
                topic' = [topic EXCEPT ![p] =
                            Append(@, Envelope("transaction_completed",
                                               Some(requests[i].tx)))]
          /\ published' = Append(published, requests[i].tx)
       \/ UNCHANGED <<topic, published>>
    /\ UNCHANGED <<holdings, now, last, outcome, dead_letter, ledger, basis, service,
                   consumer, acked, attempts, run, transactions, position, inflight, done>>

\* a client posts, to either process, a transaction with a stored id or
\* with the next free one
PostRequest ==
    \E s \in Servers, tid \in 1..MaxTransactions :
        /\ tid <= Cardinality(transactions) + 1
        /\ \E tx \in Requests(tid) : Select(s, tx)

NextProducer ==
    \/ PostRequest
    \/ \E i \in 1..Len(requests) : Commit(i)
    \/ \E i \in 1..Len(requests) : Send(i)

SpecProducer == InitStream /\ [][NextProducer]_vars

\* ------------------------------------------------------------ the claims
\* the transaction of the message consumed last
LastTx == Val(Val(last).transaction_data)
LastIsTransaction == ~IsNone(last) /\ IsTransaction(Val(last))
LastIsTrade(ty) == ~IsNone(last) /\ IsWellFormedTrade(Val(last), ty)
\* the step is a turn of the consumer loop whose store calls all succeeded
Applied == now' = now + 1 /\ outcome' # "store_error"
\* the stored Positions of (u, s), s in any letter case
Position(rows, u, s) == {r \in rows : r.user_id = u /\ r.symbol = Upper(s)}

\* C1: after a sequence of distinct well-formed buy events of one (user,
\* symbol) on a table without that Position, the Position holds the sum of
\* the quantities and, as average_cost, the sum of the amounts divided by
\* the sum of the quantities (the float nearest to that quotient).
C1_BuysGiveWeightedMean ==
    (run.ok /\ run.n > 0) =>
        /\ Cardinality(Position(holdings, run.user_id, run.symbol)) = 1
        /\ \A r \in Position(holdings, run.user_id, run.symbol) :
              /\ r.quantity = run.quantity
              /\ r.average_cost = FDiv(run.amount, run.quantity)

\* C2: a transaction delivered a second time changes no Position.
C2_RedeliveryChangesNothing ==
    [][(LastIsTransaction /\ last' = last) => holdings' = holdings]_vars

\* C3: a well-formed sell of exactly the quantity held in the Position of
\* its (user, symbol), processed with the store available, leaves no
\* Position of that (user, symbol).
C3_SellAllRemovesPosition ==
    [][(Applied /\ LastIsTrade("sell")' /\
        \E r \in Position(holdings, LastTx'.user_id, Val(LastTx'.symbol)) :
            r.quantity = Val(LastTx'.quantity))
       => Position(holdings', LastTx'.user_id, Val(LastTx'.symbol)) = {}]_vars

\* C4: a well-formed sell of more than the Position of its (user, symbol)
\* holds, or without such a Position, processed with the store available,
\* is refused with a warning and leaves the table as it was.
C4_OversellChangesNothing ==
    [][(Applied /\ LastIsTrade("sell")' /\
        \A r \in Position(holdings, LastTx'.user_id, Val(LastTx'.symbol)) :
            RLt(r.quantity, Val(LastTx'.quantity)))
       => (holdings' = holdings /\
           outcome' \in {"warn_oversell", "warn_no_holding"})]_vars

\* C5: a sell refused for insufficient holdings is in the dead-letter sink
\* with reason InsufficientHoldings.
C5_RefusedSellIsDeadLettered ==
    outcome \in {"warn_oversell", "warn_no_holding"} =>
        [event |-> LastTx, reason |-> "InsufficientHoldings"] \in dead_letter

\* C6: a buy event with quantity <= 0 changes no Position.
C6_NonPositiveBuyChangesNothing ==
    [][(LastIsTransaction' /\ LastTx'.type = "buy" /\ ~IsNone(LastTx'.quantity) /\
        RLe(Val(LastTx'.quantity), Zero))
       => holdings' = holdings]_vars

\* C7: every stored Position has quantity > 0.
C7_QuantityPositive == \A r \in holdings : RLt(Zero, r.quantity)

\* C8: a deposit or withdrawal changes no Position, and the consumer takes
\* neither the buy nor the sell branch for it.
TradeOutcomes ==
    {"new_holding", "holding_bought", "holding_deleted", "holding_sold",
     "warn_no_holding", "warn_oversell"}
IsCash(msg) ==
    IsTransaction(msg) /\ Val(msg.transaction_data).type \in {"deposit", "withdrawal"}
C8_CashEventTouchesNoPosition ==
    [][(now' = now + 1 /\ IsCash(Val(last'))) =>
        /\ holdings' = holdings
        /\ outcome' \notin TradeOutcomes]_vars
\* a deposit or withdrawal that names a symbol the user holds was consumed
C8_Witness ==
    /\ ~IsNone(last) /\ IsCash(Val(last))
    /\ outcome = "no_branch"
    /\ Matching(holdings, LastTx) # {}

\* C9: a well-formed sell of less than the Position of its (user, symbol)
\* holds, processed with the store available, lowers that Position's
\* quantity by the event's quantity and keeps its average_cost.
C9_PartialSellKeepsAverage ==
    [][(Applied /\ LastIsTrade("sell")') =>
        \A r \in Position(holdings, LastTx'.user_id, Val(LastTx'.symbol)) :
            RLt(Val(LastTx'.quantity), r.quantity)
            => \E n \in Position(holdings', LastTx'.user_id, Val(LastTx'.symbol)) :
                  /\ n.quantity = FSub(r.quantity, Val(LastTx'.quantity))
                  /\ n.average_cost = r.average_cost]_vars

\* C10: a buy or sell event without symbol or quantity, with quantity <= 0
\* or with amount < 0 changes no Position.
IsMalformedTrade(msg) ==
    /\ IsTransaction(msg)
    /\ LET d == Val(msg.transaction_data)
       IN  /\ d.type \in {"buy", "sell"}
           /\ \/ ~SymbolTruthy(d.symbol)
              \/ IsNone(d.quantity)
              \/ RLe(Val(d.quantity), Zero)
              \/ (~IsNone(d.amount) /\ RLt(Val(d.amount), Zero))
C10_MalformedTradeChangesNothing ==
    [][(now' = now + 1 /\ IsMalformedTrade(Val(last'))) => holdings' = holdings]_vars

\* C11: the offset of a well-formed buy is acknowledged only when the
\* buy's Position write is committed.
C11_AckOnlyAfterDurableCommit ==
    (acked /\ LastIsTrade("buy")) => outcome \in {"new_holding", "holding_bought"}

\* C12: after every turn of the loop, the idempotency marker
\* (user_id, transaction_id) of the transaction consumed last is stored if
\* and only if that transaction's Position mutation is stored.
MutationOutcomes == {"new_holding", "holding_bought", "holding_deleted", "holding_sold"}
C12_MarkerIffMutation ==
    LastIsTransaction =>
        (<<LastTx.user_id, LastTx.transaction_id>> \in ledger
         <=> outcome \in MutationOutcomes)

\* C13: a transaction whose store write failed and whose offset has been
\* advanced is in the dead-letter sink with reason StoreUnavailable.
C13_StoreFailureIsDeadLettered ==
    (acked /\ outcome = "store_error") =>
        [event |-> LastTx, reason |-> "StoreUnavailable"] \in dead_letter

\* C15: the consumer loop is running after every consumed message.
C15_ConsumerKeepsRunning == now > 0 => consumer = "running"

\* C17: a transaction the consumer has moved past for good (its offset is
\* acknowledged) is in a terminal state: applied or a no-op with the session
\* committed, or dead-lettered.
C17_EventEndsTerminal ==
    (acked /\ LastIsTransaction) =>
        \/ outcome \in MutationOutcomes \cup {"no_branch"}
        \/ \E e \in dead_letter : e.event = LastTx

\* C18: a sell refused by the reducer and delivered again is deduplicated:
\* the loop body does not reduce it a second time.
C18_RejectedRedeliveryIsDeduplicated ==
    [][(now' = now + 1 /\ last' = last /\
        outcome \in {"warn_oversell", "warn_no_holding"})
       => outcome' = "deduplicated"]_vars

\* C19: after the first failed store write of an event the consumer neither
\* acknowledges its offset nor takes another event: the next turn of the
\* loop is on the same event.
C19_FailedWriteIsRetried ==
    [][(outcome = "store_error" /\ attempts = 1)
       => (~acked' /\ (now' = now + 1 => last' = last))]_vars

\* ------------------------------------------- the claims about the stream
\* the transaction an instance holds in its loop body
InFlightTx(w) == Val(Val(inflight[w]).msg.transaction_data)
\* the transactions of the records of a partition
TxOf(log) == [i \in DOMAIN log |-> Val(log[i].transaction_data)]
\* the ids of the transactions of the same user published before tid
EarlierOf(tid) ==
    {published[i].transaction_id :
        i \in {i \in DOMAIN published :
                \E j \in DOMAIN published :
                    /\ i < j
                    /\ published[j].transaction_id = tid
                    /\ published[i].user_id = published[j].user_id}}

C16_KeyedByUser ==
    \A u \in Users : \E p \in Partitions :
        SelectSeq(TxOf(topic[p]), LAMBDA t : t.user_id = u)
            = SelectSeq(published, LAMBDA t : t.user_id = u)
\* a user with two published events while every partition holds a record
C16_Witness ==
    /\ \E u \in Users : Len(SelectSeq(published, LAMBDA t : t.user_id = u)) >= 2
    /\ \A p \in Partitions : topic[p] # <<>>

RowsOf(rows, v) == {r \in rows : r.user_id = v}

\* C21: a turn of the loop on a transaction of user u leaves the rows of
\* every other user as they were.
C21_OtherUsersUntouched ==
    [][(now' = now + 1 /\ LastIsTransaction')
       => \A v \in Users \ {LastTx'.user_id} :
             RowsOf(holdings', v) = RowsOf(holdings, v)]_vars
\* a trade of one user has changed the table while another user holds a
\* Position that the trade's symbol pattern matches
C21_Witness ==
    /\ LastIsTransaction
    /\ outcome \in MutationOutcomes
    /\ \E r \in holdings : r.user_id # LastTx.user_id /\ ILike(r.symbol, LastTx.symbol)

\* C23: when the consumer task has ended on a failed connection, the
\* service is not ready.
C23_ConnectFailureFailsStartup ==
    outcome = "connect_error" => service # "ready"

\* C22: an instance stops inside a loop body only so that the event stays
\* whole: every record handed out has either had its loop body run to the
\* end or is held by an instance (it is handed out again after a stop), and
\* a loop body given up by a stop has changed no row.
C22_StopLeavesEventWhole ==
    /\ [](\A p \in Partitions : \A i \in 1..position[p] :
            LET tx == Val(topic[p][i].transaction_data)
            IN  \/ tx.transaction_id \in done
                \/ \E w \in Workers : ~IsNone(inflight[w]) /\ InFlightTx(w) = tx)
    /\ [][\A w \in Workers :
            (~IsNone(inflight[w]) /\ IsNone(inflight'[w]) /\ now' = now)
            => holdings' = holdings]_vars
\* an instance was restarted inside the loop body on an event of a stored
\* Position, and the record waits to be handed out again
C22_Witness ==
    /\ outcome = "consumer_started"
    /\ holdings # {}
    /\ \E p \in Partitions :
          /\ position[p] < Len(topic[p])
          /\ Val(topic[p][position[p] + 1].transaction_data).transaction_id \notin done
          /\ Matching(holdings, Val(topic[p][position[p] + 1].transaction_data)) # {}

\* C24: the table holds at most one row per user_id and symbol (symbols
\* are stored upper-cased).
C24_OnePositionPerSymbol ==
    \A r1, r2 \in holdings :
        (r1.user_id = r2.user_id /\ Upper(r1.symbol) = Upper(r2.symbol)) => r1 = r2

\* C25: a well-formed buy or sell of symbol S of user u, processed with
\* the store available, leaves every row of u with another symbol than S
\* (ignoring case) as it was.
C25_OtherSymbolsUntouched ==
    [][(Applied /\ (LastIsTrade("buy")' \/ LastIsTrade("sell")'))
       => \A r \in RowsOf(holdings, LastTx'.user_id) :
             r.symbol # Upper(Val(LastTx'.symbol)) => r \in holdings']_vars

\* C26: a turn of the loop that ends in an error (undecodable value, JSON
\* error, validation error, store error) leaves the table as it was.
ErrorOutcomes == {"consumer_error", "json_error", "error_rollback", "store_error"}
C26_ErrorLeavesStoreAsBefore ==
    [][(now' = now + 1 /\ outcome' \in ErrorOutcomes) => holdings' = holdings]_vars
\* a well-formed buy of a held Position ended in a store error
C26_Witness ==
    /\ LastIsTrade("buy")
    /\ outcome = "store_error"
    /\ Matching(holdings, LastTx) # {}

\* a message the loop body has no branch for: not a transaction_completed
\* envelope with its transaction_data, or a transaction of another type
IsIgnored(msg) ==
    \/ ~IsTransaction(msg)
    \/ Val(msg.transaction_data).type \notin {"buy", "sell", "deposit", "withdrawal"}

\* C27: a message whose event_type is not transaction_completed, whose
\* transaction_data is missing or whose value is not valid JSON, and a
\* transaction whose type is none of buy, sell, deposit, withdrawal, changes
\* no Position, and the consumer goes on with the next message.
C27_IgnoredMessageIsSkipped ==
    [][(now' = now + 1 /\ IsIgnored(Val(last'))) =>
        /\ holdings' = holdings
        /\ consumer' = "running"]_vars

\* C28: the producer publishes at most one event per transaction_id, and a
\* request whose transaction_id is already stored, or is being stored by a
\* concurrent request, is answered 400 without a second row and without an
\* event: no request ends in any other way than 200 or 400, at most one
\* request per transaction_id is answered 200, and no two rows or events
\* share a transaction_id.
C28_DuplicateIsRejected ==
    /\ \A i \in 1..Len(requests) : requests[i].status \in {0, 200, 400}
    /\ \A i, j \in 1..Len(requests) :
          (/\ requests[i].status = 200 /\ requests[j].status = 200
           /\ requests[i].tx.transaction_id = requests[j].tx.transaction_id) => i = j
    /\ \A i, j \in 1..Len(published) :
          published[i].transaction_id = published[j].transaction_id => i = j
    /\ \A x, y \in transactions : x.transaction_id = y.transaction_id => x = y

\* C29: an event is published only for a transaction that is already
\* committed to the transaction database, so every published event has its
\* stored transaction; a send that fails neither removes the stored
\* transaction nor fails the request, which is answered 200.
C29_PublishedAfterCommit ==
    /\ [](\A k \in 1..Len(published) : published[k] \in transactions)
    /\ [][\A i \in 1..Len(requests) :
            (/\ requests[i].pc = "stored"
             /\ requests'[i].pc = "returned"
             /\ published' = published) =>
                /\ transactions' = transactions
                /\ requests'[i].status = 200]_vars
\* a request was answered 200 and its transaction is stored, but no event
\* was published for it
C29_Witness ==
    \E i \in 1..Len(requests) :
        /\ requests[i].status = 200
        /\ requests[i].tx \in transactions
        /\ \A k \in 1..Len(published) : published[k] # requests[i].tx

\* C30: while the topic is a sequence of well-formed buy and sell events of
\* one (user, symbol), a stored Position of it has an average_cost that is
\* >= 0 and lies between the smallest and the largest unit price of the buys
\* accepted since the Position was last created.
C30_AverageWithinPrices ==
    (basis.ok /\ basis.held) =>
        \A r \in Position(holdings, basis.user_id, basis.symbol) :
            /\ RLe(Zero, r.average_cost)
            /\ RLe(basis.lo, r.average_cost)
            /\ RLe(r.average_cost, basis.hi)

====
